---- MODULE Spec2Model ----
(***************************************************************************)
(* State-machine model of the dash-emulator core.                          *)
(*                                                                         *)
(*   managers.py  PlayManager + DownloadManager: the event-driven session  *)
(*   emulator.py  Emulator.start: the polling session                      *)
(*                                                                         *)
(* A behaviour is one session of one of the two implementations (mode).    *)
(* Time is a discrete wall clock `now` (seconds); asyncio timers are wake  *)
(* times, and timers that are due at the same instant run in any order.    *)
(* The event bus (events.py is not part of the sources) dispatches as the  *)
(* specification describes it: handlers of a kind run one after the other  *)
(* in registration order, inside the publisher's task, and the publisher   *)
(* resumes only when the last one has returned.                            *)
(***************************************************************************)
EXTENDS Integers, Sequences, FiniteSets, TLC

\* ---- bounds of the model ------------------------------------------------
MaxSegs == 3          \* media segments per representation: 0..MaxSegs
MaxDur == 2           \* a segment lasts 1..MaxDur seconds
MaxStart == 1         \* Representation.startNumber: 0 or MaxStart
MaxMinBuffer == 2     \* MPD.minBufferTime: 1 or MaxMinBuffer seconds
MaxInterval == 2      \* Config.update_interval: 1 or MaxInterval seconds
MaxSlack == 1         \* mediaPresentationDuration - sum of durations: 0 or MaxSlack
MaxTime == 9          \* the wall clock stops being advanced past MaxTime
NumReps == 2          \* representations of the video adaptation set
MaxBufferCfg == 3     \* Config.max_buffer: 1..MaxBufferCfg seconds
MaxFetchTime == 2     \* a fetch of the polling session takes 0..MaxFetchTime seconds
SegmentBytes == 1     \* declared Content-Length of a fetch, bytes
Bandwidth == 8        \* speed_monitor.get_speed() during a fetch, bits per second
MaxRatio == 1         \* Config.timeout_max_ratio

Reps == 1..NumReps

\* ---- PlayManager.State --------------------------------------------------
READY == 0
PLAYING == 1
STALLING == 2
STOPPED == 3

VARIABLES
    mode,            \* "managers" | "emulator": which implementation runs
    cfg,             \* Config: update_interval, plot, max_buffer, timeout_max_ratio,
                     \*         output (args['output'] is not None)
    mpd,             \* MPD: startNumber, nurls, durations, minBufferTime,
                     \*      mediaPresentationDuration
    now,             \* wall clock (time.time()), seconds
    \* PlayManager
    state,           \* PlayManager.state
    current_time,    \* PlayManager.current_time (playback clock)
    start_time,      \* PlayManager.start_time
    update_current_time_task,     \* [st, wake]
    check_buffer_sufficient_task, \* [st, wake]
    orphans,         \* live tasks whose handle play() has overwritten
    \* monitor.BufferMonitor().buffer
    buffer,
    \* DownloadManager
    representation,  \* DownloadManager.representation (0 = None)
    video_ind,       \* DownloadManager.video_ind
    is_inited,       \* Representation.is_inited, per representation
    pc,              \* where the download chain of the session is suspended
    depth,           \* DownloadComplete dispatches whose check_canplay is pending
    inflight,        \* download tasks created and neither finished nor cancelled
    unclosed,        \* output files a terminated download task left open
    \* Emulator
    e_pc,            \* position of Emulator.start
    e_ind,           \* ind
    e_rep,           \* representation (0 before the first choose)
    e_task,          \* self.task (<<>> = None, else the fetch it runs)
    e_start,         \* buffer_monitor start time (-1 = not set)
    feed_speed_monitor_task,  \* "none" | "running" | "cancelled"
    e_elapsed,       \* seconds the fetch in flight has taken so far
    set_to_lowest_quaity,  \* Emulator.set_to_lowest_quaity
    e_overran,       \* history: a fetch ran past deadline * max-ratio and no
                     \* choose() has been called since
    \* history
    emitted,         \* events published and fetches started by the last step, in order
    count,           \* how many times each kind of event was published so far
    init_fetches     \* fetches of the initialization segment, per representation

vars == <<mode, cfg, mpd, now, orphans, state, current_time, start_time,
          update_current_time_task, check_buffer_sufficient_task, buffer,
          representation, video_ind, is_inited, pc, depth, inflight,
          e_pc, e_ind, e_rep, e_task, e_start, feed_speed_monitor_task,
          e_elapsed, set_to_lowest_quaity, e_overran, unclosed, emitted, count,
          init_fetches>>

playVars == <<state, current_time, start_time, update_current_time_task,
              check_buffer_sufficient_task, orphans>>
dlVars == <<representation, video_ind, pc, depth>>
emuVars == <<e_pc, e_ind, e_rep, e_task, e_start, feed_speed_monitor_task, e_elapsed,
             set_to_lowest_quaity, e_overran>>
envVars == <<mode, cfg, mpd>>

\* ---- manifest and configuration ------------------------------------------
RECURSIVE SumTo(_, _)
SumTo(f, n) == IF n < 0 THEN 0 ELSE f[n] + SumTo(f, n - 1)

\* Representation.urls / durations are indexed by segment number: the entries
\* below startNumber are padding (duration 0), the media segments follow.
\* A representation is cut into segments of one nominal duration d, the last
\* one possibly shorter; every representation of the adaptation set has the
\* same segment timeline.
Timelines(s, n) ==
    UNION { { [i \in 0..(s + n - 1) |->
                 IF i < s THEN 0 ELSE IF i = s + n - 1 THEN l ELSE d] : l \in 1..d } :
            d \in 1..MaxDur }

\* mediaPresentationDuration is a field of the MPD of its own: it is at least
\* the media time of the video segments.
\* The polling session reads neither minBufferTime nor the presentation
\* duration: one value of each is enough there.
Manifests(md) ==
    UNION { { [startNumber |-> s, nurls |-> s + n, durations |-> d,
               minBufferTime |-> m,
               mediaPresentationDuration |-> SumTo(d, s + n - 1) + k] :
                 d \in Timelines(s, n),
                 m \in IF md = "managers" THEN {1, MaxMinBuffer} ELSE {1},
                 k \in IF md = "managers" THEN {0, MaxSlack} ELSE {0} } :
            s \in {0, MaxStart}, n \in 0..MaxSegs }

Configs(md) ==
    IF md = "managers"
    THEN { [update_interval |-> u, plot |-> p, max_buffer |-> 1,
             timeout_max_ratio |-> MaxRatio, output |-> o] :
             u \in {1, MaxInterval}, p \in BOOLEAN, o \in BOOLEAN }
    ELSE { [update_interval |-> 1, plot |-> FALSE, max_buffer |-> b,
             timeout_max_ratio |-> MaxRatio, output |-> FALSE] :
             b \in 1..MaxBufferCfg }

NoTask == [st |-> "none", wake |-> 0]

\* ---- history -------------------------------------------------------------
\* One entry per published event or started fetch: the playback state and the
\* seconds of media ahead of the playback clock when it happened, and the
\* representation / segment index it concerns.
Ev(name, st, lvl, r, i) == [e |-> name, st |-> st, lvl |-> lvl, rep |-> r, ind |-> i]

Kinds == {"DownloadStart", "DownloadComplete", "InitializationDownloadComplete",
          "DownloadEnd", "CanPlay", "Play", "Stall", "End", "plot",
          "fetch_init", "fetch_segment", "init_failed", "segment_failed",
          "choose", "feed_segment"}

Tally(c, es) ==
    [k \in Kinds |-> c[k] + Cardinality({ i \in DOMAIN es : es[i].e = k })]

InitTally(c, es) ==
    [r \in Reps |-> c[r] + Cardinality({ i \in DOMAIN es : es[i].e = "fetch_init"
                                                          /\ es[i].rep = r })]

Record(es) ==
    /\ emitted' = es
    /\ count' = Tally(count, es)
    /\ init_fetches' = InitTally(init_fetches, es)

Init ==
    /\ mode \in {"managers", "emulator"}
    /\ mpd \in Manifests(mode)
    /\ cfg \in Configs(mode)
    /\ now = 0
    /\ state = READY
    /\ current_time = 0
    /\ start_time = 0
    /\ update_current_time_task = NoTask
    /\ check_buffer_sufficient_task = NoTask
    /\ orphans = 0
    /\ buffer = 0
    /\ representation = 0
    /\ video_ind = -1
    /\ is_inited = [r \in Reps |-> FALSE]
    /\ pc = "init"
    /\ depth = 0
    /\ inflight = {}
    /\ unclosed = {}
    /\ e_pc = "init"
    /\ e_ind = -1
    /\ e_rep = 0
    /\ e_task = <<>>
    /\ e_start = -1
    /\ feed_speed_monitor_task = "none"
    /\ e_elapsed = 0
    /\ set_to_lowest_quaity = FALSE
    /\ e_overran = FALSE
    /\ emitted = <<>>
    /\ count = [k \in Kinds |-> 0]
    /\ init_fetches = [r \in Reps |-> 0]

\* ---- collaborators outside the two source files ------------------------------
\* EventBridge.trigger: the listeners of a kind run in registration order in
\* the publisher's task, each one to its end before the next one starts, and
\* the publisher resumes after the last: the effects of the listeners follow
\* one another.
trigger(first, rest) == first \o rest

\* BufferMonitor.feed_segment: the buffer grows by the segment's duration.
feed_segment(buf, d) == buf + d

\* ABRController.choose: a replaceable strategy; it may return any
\* representation of the adaptation set.
abr_choose == Reps

\* ---- PlayManager -----------------------------------------------------------
\* switch_state with the STALLING branch assigning the wrong state.
switch_state_wrong_branch(cur, s) ==
    CASE s = "READY" -> READY
      [] s = "PLAYING" -> PLAYING
      [] s = "STALLING" -> READY
      [] s = "STOPPED" -> STOPPED
      [] OTHER -> cur

\* switch_state: the new state for a state name; an unknown name is logged and
\* leaves the state as it is.
switch_state(cur, s) ==
    CASE s = "READY" -> READY
      [] s = "PLAYING" -> PLAYING
      [] s = "STALLING" -> STALLING
      [] s = "STOPPED" -> STOPPED
      [] OTHER -> cur

\* PlayManager.buffer_level: milliseconds of media ahead of the playback clock.
buffer_level(buf, ct) == (buf - ct) * 1000

\* Seconds of media ahead of the playback clock (the quantity the stall
\* handler compares with minBufferTime).
level_seconds(buf, ct) == buf - ct

\* check_canplay's condition.
check_canplay(st, buf, ct) == st = READY /\ buffer_level(buf, ct) > mpd.minBufferTime

\* The presentation counts as ended only when the clock is past its duration.
presentation_ended_strict(ct) == mpd.mediaPresentationDuration < ct

\* The comparison of line 88 turned round.
presentation_ended_reversed(ct) == mpd.mediaPresentationDuration >= ct

\* check_buffer_sufficient, after its loop: End if the playback clock has
\* reached the presentation duration, else Stall.
presentation_ended(ct) == mpd.mediaPresentationDuration <= ct

\* asyncio.Task.cancel() on a task other than the running one: a task that has
\* not finished stops at the await it is suspended at and never runs again.
\* A cancel() that leaves the task as it is.
cancel_without_effect(t) == t

\* Task.cancel() on a task that is not the running one: it never runs again.
cancel(t) == IF t.st \in {"ready", "sleeping"} THEN [st |-> "cancelled", wake |-> 0] ELSE t

\* A task that has been created and has neither ended nor been cancelled.
Live(t) == t.st \in {"ready", "sleeping"}

\* play(): the Play listener. It cancels nothing: it assigns two new tasks to
\* the two handles, so a task that is still live behind a handle goes on
\* running with nothing left to cancel it.
play ==
    /\ start_time' = now
    /\ orphans' = orphans + Cardinality({ t \in {"clock", "check"} :
                        Live(IF t = "clock" THEN update_current_time_task
                             ELSE check_buffer_sufficient_task) })
    /\ update_current_time_task' = [st |-> "ready", wake |-> now]
    /\ check_buffer_sufficient_task' = [st |-> "ready", wake |-> now]
    /\ state' = switch_state(state, "PLAYING")
    /\ UNCHANGED current_time

\* can_play(): the CanPlay listener publishes Play.
can_play(buf) == <<Ev("Play", state, level_seconds(buf, current_time), 0, 0)>>

\* ---- DownloadManager --------------------------------------------------------
Fetch(kind, r, i) == [kind |-> kind, rep |-> r, ind |-> i]

\* start_download() without the `await task` of the initialization fetch: the
\* media segment fetch is created while the initialization fetch still runs.
start_download_init_not_awaited(r, i, infl, lvl) ==
    IF i >= mpd.nurls
    THEN [pc |-> "done", inflight |-> infl,
          out |-> <<Ev("DownloadEnd", state, lvl, r, i)>>]
    ELSE IF ~is_inited[r]
    THEN [pc |-> "dl_seg",
          inflight |-> infl \cup {Fetch("init", r, 0), Fetch("segment", r, i)},
          out |-> <<Ev("fetch_init", state, lvl, r, 0),
                    Ev("fetch_segment", state, lvl, r, i)>>]
    ELSE [pc |-> "dl_seg", inflight |-> infl \cup {Fetch("segment", r, i)},
          out |-> <<Ev("fetch_segment", state, lvl, r, i)>>]

\* start_download(): the DownloadStart listener, up to its first suspension.
\* r is DownloadManager.representation, i is video_ind, infl the download
\* tasks in flight. Gives the position the chain is left at, the tasks in
\* flight and what was published / fetched.
start_download(r, i, infl, lvl) ==
    IF i >= mpd.nurls
    THEN [pc |-> "done", inflight |-> infl,
          out |-> <<Ev("DownloadEnd", state, lvl, r, i)>>]
    ELSE IF ~is_inited[r]
    THEN [pc |-> "dl_init", inflight |-> infl \cup {Fetch("init", r, 0)},
          out |-> <<Ev("fetch_init", state, lvl, r, 0)>>]
    ELSE [pc |-> "dl_seg", inflight |-> infl \cup {Fetch("segment", r, i)},
          out |-> <<Ev("fetch_segment", state, lvl, r, i)>>]

\* DownloadManager.download(url), lines 234-249: the output files the task of
\* fetch f leaves open when it ends. The file is opened when the response
\* headers have arrived (line 239, only with an output directory) and closed
\* at end of data (line 245); there is no try/finally and no `with`, so an
\* exception raised by resp.content.read (line 242) leaves it open.
\* outcome: "complete" | "connect_error" (session.get raises) | "read_error".
download(f, outcome) ==
    IF cfg.output /\ outcome = "read_error" THEN {f} ELSE {}


\* download_start(): the MPDParseComplete listener. It chooses the initial
\* representation, primes the DownloadManager and publishes DownloadStart.
MPDParseComplete ==
    /\ mode = "managers"
    /\ pc = "init"
    /\ \E r \in abr_choose :
        LET sd == start_download(r, mpd.startNumber, inflight, level_seconds(buffer, current_time))
        IN  /\ representation' = r
            /\ video_ind' = mpd.startNumber
            /\ pc' = sd.pc
            /\ inflight' = sd.inflight
            /\ Record(<<Ev("choose", state, level_seconds(buffer, current_time), r,
                           mpd.startNumber),
                        Ev("DownloadStart", state, level_seconds(buffer, current_time), r,
                           mpd.startNumber)>> \o sd.out)
    /\ UNCHANGED <<envVars, unclosed, now, playVars, buffer, is_inited, depth, emuVars>>

\* The initialization fetch is done but is_inited is left as it was.
init_downloaded_flag_not_set(r) == is_inited

\* start_download() resumes after `await task` of the initialization fetch
\* and sets the representation's flag.
init_downloaded(r) == [is_inited EXCEPT ![r] = TRUE]

InitDownloaded ==
    /\ mode = "managers"
    /\ pc = "dl_init"
    /\ LET r == representation
           lvl == level_seconds(buffer, current_time)
       IN  /\ is_inited' = init_downloaded(r)
           /\ unclosed' = unclosed \cup download(Fetch("init", r, 0), "complete")
           /\ inflight' = (inflight \ {Fetch("init", r, 0)}) \cup {Fetch("segment", r, video_ind)}
           /\ Record(<<Ev("InitializationDownloadComplete", state, lvl, r, 0),
                       Ev("fetch_segment", state, lvl, r, video_ind)>>)
    /\ pc' = "dl_seg"
    /\ UNCHANGED <<envVars, now, playVars, buffer, representation, video_ind, depth, emuVars>>

\* The duration fed to the buffer with the index of the next segment: the
\* index advanced before the feed.
fed_duration_after_advance(i) ==
    IF i + 1 \in DOMAIN mpd.durations THEN mpd.durations[i + 1] ELSE 0

\* The duration fed to the buffer for the completed segment i:
\* representation.durations[video_ind] (download_next) and
\* representation.durations[ind] (Emulator.start), read before the index
\* advances.
fed_duration(i) == mpd.durations[i]

\* The index advances by two: every other segment is skipped.
next_index_skips(i) == i + 2

\* `video_ind += 1` (download_next, line 167) and `ind += 1` (Emulator.start,
\* line 131).
next_index(i) == i + 1

\* download_next with the representation chosen before the buffer is fed: the
\* controller sees the level without the completed segment.
download_next_choose_before_feed(buf, ct, st, r, i) ==
    LET fed == feed_segment(buf, fed_duration(i))
    IN  [buffer |-> fed, video_ind |-> next_index(i),
         out |-> <<Ev("choose", st, level_seconds(buf, ct), r, next_index(i)),
                   Ev("feed_segment", st, level_seconds(fed, ct), r, i),
                   Ev("DownloadStart", st, level_seconds(fed, ct), r, next_index(i))>>]

\* download_next(): the first DownloadComplete listener, up to the dispatch of
\* DownloadStart. It feeds the duration of the completed segment i to the
\* BufferMonitor, then calls choose (r is what it returns; the level the
\* controller can read is the one after the feed), then advances the index
\* and publishes DownloadStart.
download_next(buf, ct, st, r, i) ==
    LET fed == feed_segment(buf, fed_duration(i))
    IN  [buffer |-> fed, video_ind |-> next_index(i),
         out |-> <<Ev("feed_segment", st, level_seconds(fed, ct), r, i),
                   Ev("choose", st, level_seconds(fed, ct), r, next_index(i)),
                   Ev("DownloadStart", st, level_seconds(fed, ct), r, next_index(i))>>]

\* start_download() resumes after `await task` of the media segment and
\* publishes DownloadComplete. Its listeners run in registration order:
\*   download_next  feeds the buffer, chooses, advances video_ind and publishes
\*                  DownloadStart, whose listener start_download() runs inside
\*                  it; download_next returns when that start_download returns;
\*   check_canplay  runs when download_next has returned.
\* While the nested start_download awaits a fetch, this dispatch (and every
\* dispatch below it on the stack) is suspended before its check_canplay:
\* depth counts them. When the nested start_download publishes DownloadEnd and
\* returns, the stack unwinds without suspending, and the pending check_canplay
\* calls run innermost first: the first one that finds its condition true
\* publishes CanPlay (-> can_play -> Play -> play), the others find the state
\* changed.
SegmentDownloaded ==
    /\ mode = "managers"
    /\ pc = "dl_seg"
    /\ \E r \in abr_choose :
        LET done == Fetch("segment", representation, video_ind)
            dn == download_next(buffer, current_time, state, r, video_ind)
            buf == dn.buffer
            ind == dn.video_ind
            lvl == level_seconds(buf, current_time)
            sd == start_download(r, ind, inflight \ {done}, lvl)
            head == <<Ev("DownloadComplete", state, level_seconds(buffer, current_time),
                         representation, video_ind)>> \o dn.out \o sd.out
        IN  /\ buffer' = buf
            /\ unclosed' = unclosed \cup download(done, "complete")
            /\ representation' = r
            /\ video_ind' = ind
            /\ pc' = sd.pc
            /\ inflight' = sd.inflight
            /\ IF sd.pc = "done"
               THEN /\ depth' = 0
                    /\ IF check_canplay(state, buf, current_time)
                       THEN /\ play
                            /\ Record(trigger(head, <<Ev("CanPlay", state, lvl, 0, 0)>>
                                                     \o can_play(buf)))
                       ELSE /\ UNCHANGED playVars
                            /\ Record(trigger(head, <<>>))
               ELSE /\ depth' = depth + 1
                    /\ UNCHANGED playVars
                    /\ Record(head)
    /\ UNCHANGED <<envVars, now, is_inited, emuVars>>

\* A fetch raises (aiohttp.ClientError out of session.get or out of
\* resp.content.read). download() has no handler, so its task ends with the
\* exception and `await task` in start_download (lines 274, 284) raises it
\* again. Neither start_download, download_next, download_start nor anything
\* else in the sources catches it: the exception unwinds every dispatch
\* suspended on the stack, none of the pending check_canplay calls runs, and
\* nothing publishes another DownloadStart. The tasks of the PlayManager are
\* other tasks and keep running.
DownloadFailed ==
    /\ mode = "managers"
    /\ pc \in {"dl_init", "dl_seg"}
    /\ LET f == IF pc = "dl_init" THEN Fetch("init", representation, 0)
                ELSE Fetch("segment", representation, video_ind)
       IN  /\ \E outcome \in {"connect_error", "read_error"} :
                 unclosed' = unclosed \cup download(f, outcome)
           /\ inflight' = inflight \ {f}
           /\ Record(<<Ev(IF pc = "dl_init" THEN "init_failed" ELSE "segment_failed",
                          state, level_seconds(buffer, current_time),
                          representation, video_ind)>>)
    /\ pc' = "aborted"
    /\ depth' = 0
    /\ UNCHANGED <<envVars, now, playVars, buffer, representation, video_ind,
                   is_inited, emuVars>>

\* ---- periodic tasks of the PlayManager -------------------------------------
\* update_current_time: first step of the task, up to its first sleep.
ClockStart ==
    /\ mode = "managers"
    /\ update_current_time_task.st = "ready"
    /\ update_current_time_task' = [st |-> "sleeping", wake |-> now + cfg.update_interval]
    /\ Record(<<>>)
    /\ UNCHANGED <<envVars, unclosed, orphans, now, state, current_time, start_time,
                   check_buffer_sufficient_task, buffer, dlVars, is_inited, inflight, emuVars>>

\* update_current_time: the sleep is over, the clock advances by one interval
\* and the task sleeps again.
update_current_time(ct) == ct + cfg.update_interval

ClockTick ==
    /\ mode = "managers"
    /\ update_current_time_task.st = "sleeping"
    /\ update_current_time_task.wake <= now
    /\ current_time' = update_current_time(current_time)
    /\ update_current_time_task' = [st |-> "sleeping", wake |-> now + cfg.update_interval]
    /\ Record(<<>>)
    /\ UNCHANGED <<envVars, unclosed, orphans, now, state, start_time, check_buffer_sufficient_task,
                   buffer, dlVars, is_inited, inflight, emuVars>>

\* stall(): the Stall listener, up to its first `await asyncio.sleep`. Stall is
\* published by check_buffer_sufficient, so stall() runs inside the
\* buffer-check task: cancelling check_buffer_sufficient_task is the running
\* task cancelling itself, and the CancelledError is delivered at that sleep.
stall ==
    /\ update_current_time_task' = cancel(update_current_time_task)
    /\ check_buffer_sufficient_task' = [st |-> "cancelling", wake |-> 0]
    /\ state' = switch_state(state, "STALLING")
    /\ UNCHANGED <<current_time, start_time>>

\* check_buffer_sufficient: one run of the task, from where it is suspended to
\* its next sleep or to its end.
CheckStep ==
    /\ mode = "managers"
    /\ check_buffer_sufficient_task.st \in {"ready", "sleeping"}
    /\ check_buffer_sufficient_task.st = "sleeping" => check_buffer_sufficient_task.wake <= now
    /\ LET lvl == level_seconds(buffer, current_time)
       IN  IF buffer_level(buffer, current_time) > 0
           THEN /\ check_buffer_sufficient_task' =
                       [st |-> "sleeping",
                        wake |-> now + (buffer_level(buffer, current_time) \div 1000)]
                /\ Record(<<>>)
                /\ UNCHANGED <<state, current_time, start_time, update_current_time_task>>
           ELSE IF presentation_ended(current_time)
           THEN /\ check_buffer_sufficient_task' = [st |-> "done", wake |-> 0]
                /\ Record(trigger(<<Ev("End", state, lvl, 0, 0)>>,
                                  IF cfg.plot THEN <<Ev("plot", state, lvl, 0, 0)>> ELSE <<>>))
                /\ UNCHANGED <<state, current_time, start_time, update_current_time_task>>
           ELSE /\ stall
                /\ Record(<<Ev("Stall", state, lvl, 0, 0)>>)
    /\ UNCHANGED <<envVars, unclosed, orphans, now, buffer, dlVars, is_inited, inflight, emuVars>>

\* The CancelledError raised at stall()'s sleep leaves stall(), the dispatch
\* and check_buffer_sufficient: the task ends cancelled. The rest of stall()
\* (the poll of the buffer and the second Play) is not run.
StallCancelled ==
    /\ mode = "managers"
    /\ check_buffer_sufficient_task.st = "cancelling"
    /\ check_buffer_sufficient_task' = [st |-> "cancelled", wake |-> 0]
    /\ Record(<<>>)
    /\ UNCHANGED <<envVars, unclosed, orphans, now, state, current_time, start_time, update_current_time_task,
                   buffer, dlVars, is_inited, inflight, emuVars>>

\* ---- time -------------------------------------------------------------------
Tasks == {update_current_time_task, check_buffer_sufficient_task}

Timers == { t.wake : t \in { u \in Tasks : u.st = "sleeping" } }

Earliest(ws) == CHOOSE w \in ws : \A v \in ws : w <= v

\* The event loop is idle: the wall clock moves to the next timer.
AdvanceTime ==
    /\ mode = "managers"
    /\ \A t \in Tasks : t.st \notin {"ready", "cancelling"}
    /\ Timers # {}
    /\ \A w \in Timers : w > now
    /\ Earliest(Timers) <= MaxTime
    /\ now' = Earliest(Timers)
    /\ Record(<<>>)
    /\ UNCHANGED <<envVars, unclosed, playVars, buffer, dlVars, is_inited, inflight, emuVars>>

\* ---- Emulator.start: the polling session -----------------------------------
\* buffer_monitor.buffer_level: the media fed so far minus the playback clock,
\* which runs with the wall clock from the start time set_start_time anchored.
e_buffer_level(buf, st, t) == IF st < 0 THEN buf ELSE buf - (t - st)

\* download_progress_monitor, line 48: the expected duration of the fetch.
timeout(length, bandwidth) == (length * 8) \div bandwidth

\* download_progress_monitor, line 54: the fetch has run for longer than the
\* expected duration times the configured ratio. This is where the monitor
\* sets set_to_lowest_quaity and cancels self.task; Emulator.start (lines
\* 93-133) creates the sampler task and the fetch tasks only, never a task
\* for download_progress_monitor, so no step of the session runs it.
deadline_exceeded(elapsed) ==
    elapsed > timeout(SegmentBytes, Bandwidth) * cfg.timeout_max_ratio

\* The representations are numbered by ascending bitrate.
lowest_bitrate == CHOOSE r \in Reps : \A q \in Reps : r <= q

\* Lines 111-121: choose the representation, fetch its initialization segment
\* if it has none yet, else fetch segment ind; up to the `await self.task`.
e_download(ind, buf, st, infl) ==
    \E r \in abr_choose :
        LET lvl == e_buffer_level(buf, st, now)
            f == IF is_inited[r] THEN Fetch("segment", r, ind) ELSE Fetch("init", r, 0)
        IN  /\ e_rep' = r
            /\ e_task' = f
            /\ inflight' = infl \cup {f}
            /\ e_pc' = IF is_inited[r] THEN "dl_seg" ELSE "dl_init"
            /\ feed_speed_monitor_task' = "running"
            /\ e_elapsed' = 0
            /\ e_overran' = FALSE
            /\ Record(<<Ev("choose", state, lvl, r, IF e_overran THEN 1 ELSE 0),
                        Ev(IF is_inited[r] THEN "fetch_segment" ELSE "fetch_init",
                           state, lvl, r, f.ind)>>)

\* Lines 106-121 and 133: one pass from the loop condition to the next
\* suspension, with ind, the buffer and the start time as they are there.
e_loop(ind, buf, st, infl) ==
    IF ind >= mpd.nurls
    THEN /\ feed_speed_monitor_task' = "cancelled"
         /\ e_pc' = "done"
         /\ Record(<<>>)
         /\ e_task' = <<>>
         /\ e_elapsed' = 0
         /\ inflight' = infl
         /\ UNCHANGED <<e_rep, e_overran>>
    ELSE IF e_buffer_level(buf, st, now) > cfg.max_buffer
    THEN \* asyncio.sleep(max_buffer - buffer_level): a negative delay
         /\ e_pc' = "wait"
         /\ feed_speed_monitor_task' = "running"
         /\ Record(<<>>)
         /\ e_task' = <<>>
         /\ e_elapsed' = 0
         /\ inflight' = infl
         /\ UNCHANGED <<e_rep, e_overran>>
    ELSE e_download(ind, buf, st, infl)

\* Lines 94-106: the MPD is loaded, the sampler task created, the first
\* representation chosen; then the loop is entered.
E_Start ==
    /\ mode = "emulator"
    /\ e_pc = "init"
    /\ e_ind' = mpd.startNumber
    /\ e_loop(mpd.startNumber, buffer, e_start, inflight)
    /\ UNCHANGED <<envVars, unclosed, now, playVars, buffer, dlVars, is_inited, e_start,
                   set_to_lowest_quaity>>

\* The sleep of line 109 returns (its delay is negative: at once).
E_Wake ==
    /\ mode = "emulator"
    /\ e_pc = "wait"
    /\ e_download(e_ind, buffer, e_start, inflight)
    /\ UNCHANGED <<envVars, unclosed, now, playVars, buffer, dlVars, is_inited, e_ind, e_start,
                   set_to_lowest_quaity>>

\* Lines 115-121: the initialization fetch is done, the segment fetch starts.
E_InitDone ==
    /\ mode = "emulator"
    /\ e_pc = "dl_init"
    /\ LET f == Fetch("segment", e_rep, e_ind)
       IN  /\ is_inited' = init_downloaded(e_rep)
           /\ e_task' = f
           /\ inflight' = (inflight \ {e_task}) \cup {f}
           /\ Record(<<Ev("fetch_segment", state, e_buffer_level(buffer, e_start, now),
                          e_rep, e_ind)>>)
    /\ e_pc' = "dl_seg"
    /\ e_elapsed' = 0
    /\ UNCHANGED <<envVars, unclosed, now, playVars, buffer, dlVars, e_ind, e_rep, e_start,
                   feed_speed_monitor_task, set_to_lowest_quaity, e_overran>>

\* Lines 123-131, then the loop again: the segment fetch is done.
E_SegDone ==
    /\ mode = "emulator"
    /\ e_pc = "dl_seg"
    /\ LET st == IF e_ind = mpd.startNumber THEN now ELSE e_start
           buf == feed_segment(buffer, fed_duration(e_ind))
       IN  /\ e_start' = st
           /\ buffer' = buf
           /\ e_ind' = next_index(e_ind)
           /\ e_loop(next_index(e_ind), buf, st, inflight \ {e_task})
    /\ UNCHANGED <<envVars, unclosed, playVars, dlVars, is_inited, now, set_to_lowest_quaity>>

\* A fetch of the polling session raises: `await self.task` (lines 117, 123)
\* raises it again inside start(), which has no handler, so start() ends there.
\* The loop is left, line 133 is not reached and the sampler task is not
\* cancelled.
E_Failed ==
    /\ mode = "emulator"
    /\ e_pc \in {"dl_init", "dl_seg"}
    /\ e_pc' = "aborted"
    /\ e_task' = <<>>
    /\ inflight' = inflight \ {e_task}
    /\ Record(<<Ev(IF e_pc = "dl_init" THEN "init_failed" ELSE "segment_failed",
                   state, e_buffer_level(buffer, e_start, now), e_rep, e_ind)>>)
    /\ UNCHANGED <<envVars, unclosed, now, playVars, buffer, dlVars, is_inited, e_ind, e_rep,
                   e_start, feed_speed_monitor_task, e_elapsed, set_to_lowest_quaity,
                   e_overran>>

\* A fetch of the polling session takes wall-clock time.
E_TimePasses ==
    /\ mode = "emulator"
    /\ e_pc \in {"dl_init", "dl_seg"}
    /\ e_elapsed < MaxFetchTime
    /\ e_elapsed' = e_elapsed + 1
    /\ e_overran' = (e_overran \/ deadline_exceeded(e_elapsed + 1))
    /\ now' = now + 1
    /\ Record(<<>>)
    /\ UNCHANGED <<envVars, unclosed, playVars, buffer, dlVars, is_inited, inflight,
                   e_pc, e_ind, e_rep, e_task, e_start, feed_speed_monitor_task,
                   set_to_lowest_quaity>>

Next ==
    \/ MPDParseComplete
    \/ InitDownloaded
    \/ SegmentDownloaded
    \/ DownloadFailed
    \/ ClockStart
    \/ ClockTick
    \/ CheckStep
    \/ StallCancelled
    \/ AdvanceTime
    \/ E_Start
    \/ E_Wake
    \/ E_InitDone
    \/ E_SegDone
    \/ E_Failed
    \/ E_TimePasses

Spec == Init /\ [][Next]_vars

\* The event loop runs a coroutine that can run: the manifest is parsed and
\* published, and a fetch in flight ends (by completing, unless it fails
\* first), after which start_download resumes.
FairSpec ==
    /\ Spec
    /\ WF_vars(MPDParseComplete)
    /\ WF_vars(InitDownloaded)
    /\ WF_vars(SegmentDownloaded)

\* ---- properties ---------------------------------------------------------------
\* C1: in every reachable state at most one segment / initialization download
\* is in flight, in the event-driven session and in the polling session.
C1_AtMostOneDownload == Cardinality(inflight) <= 1

\* A download in flight that was started after an earlier one completed.
C1_Witness ==
    /\ Cardinality(inflight) = 1
    /\ count["fetch_init"] + count["fetch_segment"] >= 3

Edges == {<<READY, PLAYING>>, <<PLAYING, STALLING>>, <<STALLING, PLAYING>>,
          <<PLAYING, STOPPED>>}

\* C2: the playback state starts as Ready and every change of it follows one
\* of the edges Ready->Playing, Playing->Stalling, Stalling->Playing,
\* Playing->Stopped (so nothing leaves Stopped).
C2_StateEdges ==
    /\ state = READY
    /\ [][state' # state => <<state, state'>> \in Edges]_vars

\* The state has gone Ready -> Playing -> Stalling.
C2_Witness == state = STALLING /\ count["Play"] = 1 /\ count["Stall"] = 1

\* C3: CanPlay is published only in state Ready with more seconds of media
\* ahead of the playback clock than minBufferTime.
C3_CanPlayOnlyAboveThreshold ==
    \A i \in DOMAIN emitted :
        emitted[i].e = "CanPlay" =>
            /\ emitted[i].st = READY
            /\ emitted[i].lvl > mpd.minBufferTime

\* C4: a DownloadComplete handled in state Ready with the buffer above
\* minBufferTime publishes CanPlay as part of its handling: no later fetch is
\* awaited while that dispatch has still to publish it.
C4_CanPlayNotDeferred ==
    (/\ mode = "managers"
     /\ depth > 0
     /\ inflight # {}
     /\ level_seconds(buffer, current_time) > mpd.minBufferTime)
        => count["CanPlay"] > 0

\* C5: the buffer level (media fed minus playback clock) is never negative.
C5_BufferLevelNonNegative == level_seconds(buffer, current_time) >= 0

\* C6: the playback clock never exceeds the total presentation duration.
C6_ClockWithinDuration == current_time <= mpd.mediaPresentationDuration

\* C7: the stall handler survives the cancellations it performs: while the
\* state is Stalling the task that runs it is still there to poll the buffer
\* and publish Play again.
C7_StallHandlerSurvives ==
    state = STALLING => check_buffer_sufficient_task.st # "cancelled"

\* C8: once End has been published the state is Stopped and neither periodic
\* task is live.
C8_EndStopsEverything ==
    count["End"] > 0 =>
        /\ state = STOPPED
        /\ ~Live(update_current_time_task)
        /\ ~Live(check_buffer_sufficient_task)

Finished(t) == t.st \in {"cancelling", "cancelled", "done"}

\* C9: a drain of the buffer during Playing, before the presentation is over,
\* publishes exactly one Stall: never more Stalls than Plays, never two in one
\* step, one as soon as the buffer-check task has left its loop with media
\* still to play, and the task that published it does not run again.
C9_ExactlyOneStall ==
    /\ count["Stall"] <= count["Play"]
    /\ Cardinality({ i \in DOMAIN emitted : emitted[i].e = "Stall" }) <= 1
    /\ (/\ Finished(check_buffer_sufficient_task)
        /\ current_time < mpd.mediaPresentationDuration) => count["Stall"] = 1
    /\ count["Stall"] >= count["Play"] /\ count["Play"] > 0
           => Finished(check_buffer_sufficient_task)

\* The buffer has drained during Playing and the one Stall has been published.
C9_Witness ==
    /\ count["Stall"] = 1
    /\ state = STALLING
    /\ level_seconds(buffer, current_time) <= 0
    /\ check_buffer_sufficient_task.st = "cancelled"

Follows(es, i, names) == i + 1 \in DOMAIN es /\ es[i + 1].e \in names

\* C10: on DownloadStart past the end of the segment list DownloadEnd is
\* published and nothing is fetched; otherwise the initialization segment of
\* the representation is fetched if it was not yet (at most once per
\* representation, before any of its media segments) and followed by
\* InitializationDownloadComplete, then the indexed media segment is fetched,
\* and its completion publishes DownloadComplete.
C10_DownloadStartSequence ==
    /\ \A r \in Reps : init_fetches[r] <= 1
    /\ \A f \in inflight : f.kind = "segment" => (is_inited[f.rep] /\ f.ind < mpd.nurls)
    /\ \A i \in DOMAIN emitted :
        /\ emitted[i].e = "DownloadStart" =>
               /\ i + 1 \in DOMAIN emitted
               /\ emitted[i + 1].rep = emitted[i].rep
               /\ IF emitted[i].ind >= mpd.nurls
                  THEN /\ emitted[i + 1].e = "DownloadEnd"
                       /\ inflight = {}
                  ELSE IF init_fetches[emitted[i].rep] = 1 /\ ~is_inited[emitted[i].rep]
                  THEN /\ emitted[i + 1].e = "fetch_init"
                       /\ inflight = {Fetch("init", emitted[i].rep, 0)}
                  ELSE /\ emitted[i + 1].e = "fetch_segment"
                       /\ emitted[i + 1].ind = emitted[i].ind
                       /\ inflight = {Fetch("segment", emitted[i].rep, emitted[i].ind)}
        /\ emitted[i].e = "DownloadEnd" => i = Len(emitted) \/ emitted[i + 1].e = "CanPlay"
        /\ emitted[i].e = "InitializationDownloadComplete" =>
               /\ is_inited[emitted[i].rep]
               /\ Follows(emitted, i, {"fetch_segment"})
               /\ emitted[i + 1].rep = emitted[i].rep
               /\ emitted[i + 1].ind = video_ind
    /\ mode = "managers" =>
        /\ count["InitializationDownloadComplete"] = Cardinality({ r \in Reps : is_inited[r] })
        /\ count["DownloadComplete"] + Cardinality({ f \in inflight : f.kind = "segment" })
               + count["segment_failed"] = count["fetch_segment"]
        /\ count["DownloadEnd"] = (IF pc = "done" THEN 1 ELSE 0)

\* An initialization fetch, its InitializationDownloadComplete, segment
\* fetches and the final DownloadEnd have all happened, over both representations.
C10_Witness ==
    /\ mode = "managers"
    /\ count["DownloadEnd"] = 1
    /\ count["DownloadComplete"] >= 2
    /\ \A r \in Reps : init_fetches[r] = 1

\* Media segment fetches that have completed.
Completed ==
    count["fetch_segment"] - Cardinality({ f \in inflight : f.kind = "segment" })
        - count["segment_failed"]

\* C11: the buffer is fed exactly once per completed media segment fetch with
\* that segment's duration: whatever the timing, the buffer (before the
\* playback clock is subtracted) is the sum of the durations of the segments
\* downloaded so far.
C11_BufferIsSumOfDurations ==
    buffer = SumTo(mpd.durations, mpd.startNumber + Completed - 1)

\* Two segments of different durations have completed, with startNumber above 0.
C11_Witness ==
    /\ Completed = 2
    /\ mpd.durations[mpd.startNumber] # mpd.durations[mpd.startNumber + 1]
    /\ buffer = mpd.durations[mpd.startNumber] + mpd.durations[mpd.startNumber + 1]
    /\ mpd.startNumber = MaxStart

\* C12: a fetch that runs for longer than deadline * max-ratio (deadline =
\* declared content length in bits / bandwidth estimate) is cancelled by the
\* progress monitor: no fetch is in flight past that bound.
C12_OverdueDownloadCancelled ==
    e_task # <<>> => ~deadline_exceeded(e_elapsed)

C14_SessionSurvivesFailure ==
    /\ pc # "aborted"
    /\ e_pc # "aborted"

\* C15: at most one playback-clock task and at most one buffer-check task are
\* live: Play never starts new ones over tasks that are still pending, and
\* neither task is live while the state is Stalling or Stopped.
C15_NoDuplicateTickers ==
    /\ orphans = 0
    /\ state \in {STALLING, STOPPED} =>
           /\ ~Live(update_current_time_task)
           /\ ~Live(check_buffer_sufficient_task)

\* Play has started both tasks, the clock has ticked, and the stall that
\* followed has cancelled them.
C15_Witness ==
    /\ state = STALLING
    /\ count["Play"] = 1
    /\ current_time > 0
    /\ update_current_time_task.st = "cancelled"
    /\ check_buffer_sufficient_task.st \in {"cancelling", "cancelled"}

\* C16: the buffer check publishes End or Stall only at a buffer level <= 0,
\* End when the playback clock has reached the presentation duration and Stall
\* otherwise, never both and never two in a step; while it sleeps on a level
\* > 0 it has published neither, and once it has left its loop it has
\* published exactly one.
C16_CheckEmitsEndOrStall ==
    /\ \A i \in DOMAIN emitted :
        /\ emitted[i].e \in {"End", "Stall"} => emitted[i].lvl <= 0
        /\ emitted[i].e = "End" => current_time >= mpd.mediaPresentationDuration
        /\ emitted[i].e = "Stall" => current_time < mpd.mediaPresentationDuration
    /\ Cardinality({ i \in DOMAIN emitted : emitted[i].e \in {"End", "Stall"} }) <= 1
    /\ Live(check_buffer_sufficient_task) => count["End"] + count["Stall"] = 0
    /\ Finished(check_buffer_sufficient_task) => count["End"] + count["Stall"] = 1

\* The check has just published End with the clock exactly at the duration,
\* after sleeping on a positive level.
C16_Witness ==
    /\ \E i \in DOMAIN emitted : emitted[i].e = "End"
    /\ current_time = mpd.mediaPresentationDuration
    /\ count["fetch_segment"] >= 2
    /\ check_buffer_sufficient_task.st = "done"

\* C17: every DownloadComplete is followed, in this order, by the feed of the
\* completed segment's duration to the buffer, one choose (which sees the
\* level after the feed) and a DownloadStart for the next index and the chosen
\* representation; choose is called once on the parsed manifest and once per
\* DownloadComplete, each time followed by DownloadStart.
C17_FeedThenChooseThenStart ==
    mode = "managers" =>
        /\ \A i \in DOMAIN emitted :
            /\ emitted[i].e = "DownloadComplete" =>
                   /\ i + 3 \in DOMAIN emitted
                   /\ emitted[i + 1].e = "feed_segment"
                   /\ emitted[i + 1].ind = emitted[i].ind
                   /\ emitted[i + 1].lvl = emitted[i].lvl + mpd.durations[emitted[i].ind]
                   /\ emitted[i + 2].e = "choose"
                   /\ emitted[i + 2].lvl = emitted[i + 1].lvl
                   /\ emitted[i + 3].ind = emitted[i].ind + 1
            /\ emitted[i].e = "choose" =>
                   /\ i + 1 \in DOMAIN emitted
                   /\ emitted[i + 1].e = "DownloadStart"
                   /\ emitted[i + 1].rep = emitted[i].rep
                   /\ emitted[i + 1].ind = video_ind
        /\ count["choose"] = count["DownloadComplete"] + (IF pc = "init" THEN 0 ELSE 1)
        /\ count["feed_segment"] = count["DownloadComplete"]
        /\ count["DownloadStart"] = count["choose"]

\* The second DownloadComplete has fed the buffer and the choice that followed
\* changed the representation.
C17_Witness ==
    /\ mode = "managers"
    /\ count["DownloadComplete"] = 2
    /\ \E i \in DOMAIN emitted :
        /\ emitted[i].e = "DownloadComplete"
        /\ emitted[i + 2].e = "choose"
        /\ emitted[i + 2].rep # emitted[i].rep
        /\ emitted[i + 2].lvl > emitted[i].lvl

\* C18: no output file stays open after the download task that opened it has
\* ended, whether it ended by completion or by a failure.
C18_OutputFileClosed ==
    unclosed = {}

\* C19: the polling loop starts the download of the next segment (its choose
\* and its fetch) only at a buffer level at or below max_buffer.
C19_DownloadOnlyBelowMaxBuffer ==
    mode = "emulator" =>
        \A i \in DOMAIN emitted :
            emitted[i].e \in {"choose", "fetch_init", "fetch_segment"} =>
                emitted[i].lvl <= cfg.max_buffer

\* Media segments are fetched one index after the other from startNumber: the
\* k-th fetch is for index startNumber + k - 1 whatever representation is
\* chosen, and when DownloadEnd is published every index up to the last has
\* been fetched and completed once.
AscendingOnce ==
    /\ \A i \in DOMAIN emitted :
           emitted[i].e = "fetch_segment" =>
               emitted[i].ind = mpd.startNumber + count["fetch_segment"] - 1
    /\ \A f \in inflight :
           f.kind = "segment" => f.ind = mpd.startNumber + count["fetch_segment"] - 1
    /\ count["DownloadEnd"] <= 1
    /\ count["DownloadEnd"] = 1 =>
           /\ Completed = (IF mpd.nurls > mpd.startNumber
                           THEN mpd.nurls - mpd.startNumber ELSE 0)
           /\ count["fetch_segment"] = Completed
           /\ inflight = {}

\* C20: if no fetch fails, the event-driven session eventually publishes
\* DownloadEnd, and until then each media segment index from startNumber to the
\* last is fetched exactly once, in ascending order, also when the
\* representation changes between segments.
C20_EventuallyDownloadEnd ==
    /\ []AscendingOnce
    /\ mode = "managers" => <>(pc = "aborted" \/ count["DownloadEnd"] = 1)

\* DownloadEnd has been published after every segment was fetched, with a
\* start index above 0 and a change of representation on the way.
C20_Witness ==
    /\ mode = "managers"
    /\ count["DownloadEnd"] = 1
    /\ mpd.startNumber = MaxStart
    /\ count["fetch_segment"] = MaxSegs
    /\ \A r \in Reps : is_inited[r]

====
